---- MODULE Spec2Model ----
(***************************************************************************)
(* Model of internal/builtin/providers/terraform/box.go: the lifecycle of  *)
(* the pass-through resource (validate, plan, apply).                      *)
(*                                                                         *)
(* Typed values (cty.Value) are records [k, ty, v]:                        *)
(*   k  in {"null", "unknown", "known"}                                    *)
(*   ty the dynamic type, "dynamic" standing for cty.DynamicPseudoType     *)
(*   v  the payload of a known value, an index into the values of its type *)
(*      (for strings, 0 is the empty string); 0 for null and unknown       *)
(* Objects are records [isNull, input, output, trigger, uuid].             *)
(***************************************************************************)
EXTENDS Integers, Sequences, FiniteSets, TLC

VARIABLES
    pc,              \* position of the orchestrator in the current cycle
    state,           \* the persisted ResourceState of the instance
    config,          \* req.Config of the last ValidateResourceConfig
    vdiags,          \* resp.Diagnostics of the last ValidateResourceConfig
    priorState,      \* req.PriorState of the last PlanResourceChange
    proposedState,   \* req.ProposedNewState of the last PlanResourceChange
    planResp,        \* resp of the last PlanResourceChange
    plannedState,    \* req.PlannedState of the last ApplyResourceChange
    applyResp,       \* resp of the last ApplyResourceChange
    genResult,       \* what uuid.GenerateUUID returned to the last apply
    hookCalled,      \* whether the last apply called testUUIDHook
    readReq,         \* req.PriorState of the last ReadResource
    readResp,        \* resp of the last ReadResource
    upgradeReq,      \* req of the last UpgradeResourceState
    upgradeResp,     \* resp of the last UpgradeResourceState
    testUUIDHook,    \* the package variable testUUIDHook (0 is nil)
    nextUUID,        \* number of identifiers the generator has produced
    held,            \* uuids of the states planned against earlier in the run
    cycles           \* number of validate and read requests sent

vars == <<pc, state, config, vdiags, priorState, proposedState, planResp,
          plannedState, applyResp, genResult, hookCalled, readReq, readResp,
          upgradeReq, upgradeResp, testUUIDHook, nextUUID, held, cycles>>

(***************************************************************************)
(* Bounds                                                                  *)
(***************************************************************************)
MaxVal == 2
MaxCycles == 3
MaxVersion == 1

(***************************************************************************)
(* cty values                                                              *)
(***************************************************************************)
DynamicPseudoType == "dynamic"
String == "string"
Number == "number"

NullVal(t) == [k |-> "null", ty |-> t, v |-> 0]
UnknownVal(t) == [k |-> "unknown", ty |-> t, v |-> 0]
KnownVal(t, x) == [k |-> "known", ty |-> t, v |-> x]
StringVal(x) == KnownVal(String, x)

IsNull(val) == val.k = "null"
\* cty: a null value is known; only the unknown marker is not
IsKnown(val) == val.k # "unknown"
Type(val) == val.ty
\* structural equality including the type
RawEquals(a, b) == a.k = b.k /\ a.ty = b.ty /\ a.v = b.v

\* the null object of the schema's implied type
NullObj ==
    [isNull |-> TRUE, input |-> NullVal(DynamicPseudoType),
     output |-> NullVal(DynamicPseudoType),
     trigger |-> NullVal(DynamicPseudoType), uuid |-> NullVal(String)]

ObjectVal(i, o, t, u) ==
    [isNull |-> FALSE, input |-> i, output |-> o, trigger |-> t, uuid |-> u]

(***************************************************************************)
(* validateDataResourceConfig                                              *)
(***************************************************************************)
ReadOnlyAttrs == <<"uuid", "output">>

\* variant: the loop returns at the first read-only attribute that is set
validateDataResourceConfig_FirstOnly(cfg) ==
    IF cfg.isNull
    THEN <<>>
    ELSE LET set == SelectSeq(ReadOnlyAttrs, LAMBDA attr : ~IsNull(cfg[attr]))
         IN  IF set = <<>> THEN <<>> ELSE <<set[1]>>

validateDataResourceConfig(cfg) ==
    IF cfg.isNull
    THEN <<>>
    ELSE SelectSeq(ReadOnlyAttrs, LAMBDA attr : ~IsNull(cfg[attr]))

(***************************************************************************)
(* upgradeDataResourceState                                                *)
(***************************************************************************)
\* ctyjson.Unmarshal(req.RawStateJSON, ty): the raw bytes are named by what
\* decoding them against the implied type gives, a value or an error (the
\* value returned with an error is cty.NilVal, written <<>>)
Unmarshal(raw) ==
    IF raw.decodes
    THEN [val |-> <<raw.val>>, err |-> ""]
    ELSE [val |-> <<>>, err |-> raw.err]

\* variant: the decode error is not reported
upgradeDataResourceState_SwallowError(req) ==
    LET r == Unmarshal(req.RawStateJSON)
    IN  IF r.err # ""
        THEN [UpgradedState |-> <<>>, Diagnostics |-> <<>>]
        ELSE [UpgradedState |-> r.val, Diagnostics |-> <<>>]

\* resp.UpgradedState is left unset (<<>>) when decoding fails
upgradeDataResourceState(req) ==
    LET r == Unmarshal(req.RawStateJSON)
    IN  IF r.err # ""
        THEN [UpgradedState |-> <<>>, Diagnostics |-> <<r.err>>]
        ELSE [UpgradedState |-> r.val, Diagnostics |-> <<>>]

(***************************************************************************)
(* readDataResourceState                                                   *)
(***************************************************************************)
\* variant: the prior state is not passed on
readDataResourceState_Empty(prior) ==
    [NewState |-> NullObj, Diagnostics |-> <<>>]

readDataResourceState(prior) ==
    [NewState |-> prior, Diagnostics |-> <<>>]

(***************************************************************************)
(* planDataResourceChange                                                  *)
(***************************************************************************)
\* case req.PriorState.IsNull(): create
\* variant: the output is made unknown for a null input too
planCreate_AlwaysUnknownOutput(proposed) ==
    [PlannedState |->
        [proposed EXCEPT
            !.uuid = UnknownVal(String),
            !.output = UnknownVal(Type(proposed.input))],
     RequiresReplace |-> <<>>,
     Diagnostics |-> <<>>]

planCreate(proposed) ==
    [PlannedState |->
        [proposed EXCEPT
            !.uuid = UnknownVal(String),
            !.output = IF ~IsNull(proposed.input)
                       THEN UnknownVal(Type(proposed.input))
                       ELSE @],
     RequiresReplace |-> <<>>,
     Diagnostics |-> <<>>]

\* case !prior.trigger.RawEquals(trigger): replace the entire instance
\* variant: the trigger path is not marked
planReplace_NoMark(proposed) ==
    [PlannedState |->
        [proposed EXCEPT
            !.uuid = UnknownVal(String),
            !.output = IF IsNull(proposed.input)
                       THEN NullVal(DynamicPseudoType)
                       ELSE UnknownVal(Type(proposed.input))],
     RequiresReplace |-> <<>>,
     Diagnostics |-> <<>>]

\* variant: no explicit null for a null input
planReplace_KeepOutput(proposed) ==
    [PlannedState |->
        [proposed EXCEPT
            !.uuid = UnknownVal(String),
            !.output = IF IsNull(proposed.input)
                       THEN @
                       ELSE UnknownVal(Type(proposed.input))],
     RequiresReplace |-> <<"trigger">>,
     Diagnostics |-> <<>>]

\* variant: the output is made unknown for a null input too
planReplace_UnknownOutput(proposed) ==
    [PlannedState |->
        [proposed EXCEPT
            !.uuid = UnknownVal(String),
            !.output = UnknownVal(Type(proposed.input))],
     RequiresReplace |-> <<"trigger">>,
     Diagnostics |-> <<>>]

planReplace(proposed) ==
    [PlannedState |->
        [proposed EXCEPT
            !.uuid = UnknownVal(String),
            !.output = IF IsNull(proposed.input)
                       THEN NullVal(DynamicPseudoType)
                       ELSE UnknownVal(Type(proposed.input))],
     RequiresReplace |-> <<"trigger">>,
     Diagnostics |-> <<>>]

\* case !prior.input.RawEquals(input): only the output is re-computed
\* variant: the uuid is made unknown as well
planInputChanged_NewUUID(proposed) ==
    [PlannedState |->
        [proposed EXCEPT !.output = UnknownVal(Type(proposed.input)),
                         !.uuid = UnknownVal(String)],
     RequiresReplace |-> <<>>,
     Diagnostics |-> <<>>]

\* variant: the output is not made unknown
planInputChanged_KeepOutput(proposed) ==
    [PlannedState |-> proposed, RequiresReplace |-> <<>>,
     Diagnostics |-> <<>>]

planInputChanged(proposed) ==
    [PlannedState |->
        [proposed EXCEPT !.output = UnknownVal(Type(proposed.input))],
     RequiresReplace |-> <<>>,
     Diagnostics |-> <<>>]

\* no case of the switch matches: the proposed state is returned as it is
\* variant: the uuid is made unknown
planNoChange_NewUUID(proposed) ==
    [PlannedState |-> [proposed EXCEPT !.uuid = UnknownVal(String)],
     RequiresReplace |-> <<>>,
     Diagnostics |-> <<>>]

\* variant: the output is made unknown
planNoChange_UnknownOutput(proposed) ==
    [PlannedState |->
        [proposed EXCEPT !.output = UnknownVal(Type(proposed.input))],
     RequiresReplace |-> <<>>,
     Diagnostics |-> <<>>]

planNoChange(proposed) ==
    [PlannedState |-> proposed, RequiresReplace |-> <<>>,
     Diagnostics |-> <<>>]

\* if req.ProposedNewState.IsNull(): destroy op
\* variant: the prior state is returned
planDestroy_KeepPrior(prior, proposed) ==
    [PlannedState |-> prior, RequiresReplace |-> <<>>,
     Diagnostics |-> <<>>]

planDestroy(prior, proposed) ==
    [PlannedState |-> proposed, RequiresReplace |-> <<>>,
     Diagnostics |-> <<>>]

\* variant: the cases of the switch fall through, so that the input case
\* also runs after the trigger case
planDataResourceChange_Fallthrough(prior, proposed) ==
    IF proposed.isNull
    THEN planDestroy(prior, proposed)
    ELSE IF prior.isNull
    THEN planCreate(proposed)
    ELSE LET afterTrigger ==
                IF ~RawEquals(prior.trigger, proposed.trigger)
                THEN planReplace(proposed)
                ELSE planNoChange(proposed)
         IN  IF ~RawEquals(prior.input, proposed.input)
             THEN [afterTrigger EXCEPT
                    !.PlannedState.output = UnknownVal(Type(proposed.input))]
             ELSE afterTrigger

planDataResourceChange(prior, proposed) ==
    IF proposed.isNull
    THEN planDestroy(prior, proposed)
    ELSE CASE prior.isNull -> planCreate(proposed)
           [] ~prior.isNull /\ ~RawEquals(prior.trigger, proposed.trigger) ->
                planReplace(proposed)
           [] ~prior.isNull /\ RawEquals(prior.trigger, proposed.trigger)
                /\ ~RawEquals(prior.input, proposed.input) ->
                planInputChanged(proposed)
           [] OTHER -> planNoChange(proposed)

(***************************************************************************)
(* applyDataResourceChange                                                 *)
(***************************************************************************)
\* uuid.GenerateUUID: a fresh identifier, or the empty string and an error
GenerateUUID(n) ==
    {[uuidString |-> n + 1, err |-> FALSE], [uuidString |-> 0, err |-> TRUE]}

\* if !output.IsKnown(): the output becomes the input
\* variant: the output is not resolved
applyOutput_Keep(planned) == planned.output

\* variant: a null input is not copied
applyOutput_SkipNullInput(planned) ==
    IF ~IsKnown(planned.output) /\ ~IsNull(planned.input)
    THEN planned.input ELSE planned.output

applyOutput(planned) ==
    IF ~IsKnown(planned.output) THEN planned.input ELSE planned.output

\* if !uuid.IsKnown(): the uuid becomes the generated string (the hook's
\* string when the hook is installed), also when the generator failed
\* variant: the uuid is assigned whether or not it is known
applyUUID_Always(planned, gen, hook) ==
    StringVal(IF hook # 0 THEN hook ELSE gen.uuidString)

\* variant: the uuid stays unknown when the generator failed
applyUUID_SkipOnError(planned, gen, hook) ==
    IF ~IsKnown(planned.uuid) /\ ~gen.err
    THEN StringVal(IF hook # 0 THEN hook ELSE gen.uuidString)
    ELSE planned.uuid

applyUUID(planned, gen, hook) ==
    IF ~IsKnown(planned.uuid)
    THEN StringVal(IF hook # 0 THEN hook ELSE gen.uuidString)
    ELSE planned.uuid

applyDiagnostics(planned, gen) ==
    IF ~IsKnown(planned.uuid) /\ gen.err THEN <<"uuid">> ELSE <<>>

\* variant: the copy goes from output to input
applyDataResourceChange_CopyIntoInput(planned, gen, hook) ==
    IF planned.isNull
    THEN [NewState |-> planned, Diagnostics |-> <<>>]
    ELSE [NewState |->
            [planned EXCEPT
                !.input = IF ~IsKnown(planned.output)
                          THEN planned.output ELSE planned.input,
                !.uuid = applyUUID(planned, gen, hook)],
          Diagnostics |-> applyDiagnostics(planned, gen)]

applyDataResourceChange(planned, gen, hook) ==
    IF planned.isNull
    THEN [NewState |-> planned, Diagnostics |-> <<>>]
    ELSE [NewState |->
            [planned EXCEPT !.output = applyOutput(planned),
                            !.uuid = applyUUID(planned, gen, hook)],
          Diagnostics |-> applyDiagnostics(planned, gen)]

\* whether apply calls the generator for this planned state
CallsGenerator(planned) == ~planned.isNull /\ ~IsKnown(planned.uuid)

\* whether apply calls the hook: inside the same branch, when it is not nil
CallsHook(planned, hook) == CallsGenerator(planned) /\ hook # 0

(***************************************************************************)
(* The requests the orchestrator sends                                     *)
(***************************************************************************)
\* values a configuration gives to input and trigger at apply time
ConfigValues ==
    {NullVal(DynamicPseudoType), KnownVal(Number, 1)}
        \cup {StringVal(x) : x \in 1..MaxVal}

\* req.Config: the null object when the resource is removed; output and uuid
\* are null unless the user wrote them
Configs ==
    {NullObj} \cup
    {ObjectVal(i, NullVal(DynamicPseudoType), t, NullVal(String)) :
        i \in ConfigValues, t \in ConfigValues} \cup
    {ObjectVal(StringVal(1), o, StringVal(1), u) :
        o \in {NullVal(DynamicPseudoType), StringVal(1)},
        u \in {NullVal(String), StringVal(1)}}

\* req.ProposedNewState: the configuration, with the computed attributes
\* carried over from the prior state (null when there is none)
ProposedNewState(prior, cfg) ==
    IF cfg.isNull
    THEN NullObj
    ELSE [cfg EXCEPT !.output = prior.output, !.uuid = prior.uuid]

\* the generator was not called
NoCall == [uuidString |-> 0, err |-> FALSE]

GenOutcomes(planned, n) ==
    IF CallsGenerator(planned) THEN GenerateUUID(n) ELSE {NoCall}

NoPlanResp ==
    [PlannedState |-> NullObj, RequiresReplace |-> <<>>,
     Diagnostics |-> <<>>]
NoApplyResp == [NewState |-> NullObj, Diagnostics |-> <<>>]
NoReadResp == [NewState |-> NullObj, Diagnostics |-> <<>>]
NoUpgradeReq ==
    [RawStateJSON |-> [decodes |-> TRUE, val |-> NullObj, err |-> ""],
     Version |-> 0]
NoUpgradeResp == [UpgradedState |-> <<>>, Diagnostics |-> <<>>]

(***************************************************************************)
(* The lifecycle of one instance: validate, plan, apply                    *)
(***************************************************************************)
Init ==
    /\ pc = "idle"
    /\ state = NullObj
    /\ config = NullObj
    /\ vdiags = <<>>
    /\ priorState = NullObj
    /\ proposedState = NullObj
    /\ planResp = NoPlanResp
    /\ plannedState = NullObj
    /\ applyResp = NoApplyResp
    /\ genResult = NoCall
    /\ hookCalled = FALSE
    /\ readReq = NullObj
    /\ readResp = NoReadResp
    /\ upgradeReq = NoUpgradeReq
    /\ upgradeResp = NoUpgradeResp
    /\ testUUIDHook = 0
    /\ nextUUID = 0
    /\ held = {}
    /\ cycles = 0

ValidateResourceConfig ==
    /\ pc \in {"idle", "rejected", "applied", "read"}
    /\ cycles < MaxCycles
    /\ \E cfg \in Configs :
        /\ config' = cfg
        /\ vdiags' = validateDataResourceConfig(cfg)
        /\ pc' = IF validateDataResourceConfig(cfg) = <<>>
                 THEN "validated" ELSE "rejected"
    /\ cycles' = cycles + 1
    /\ UNCHANGED <<state, priorState, proposedState, planResp, plannedState,
                   applyResp, genResult, hookCalled, readReq, readResp,
                   upgradeReq, upgradeResp, testUUIDHook, nextUUID, held>>

\* between cycles the orchestrator refreshes the instance and keeps the
\* state the read returns
ReadResource ==
    /\ pc \in {"idle", "rejected", "applied"}
    /\ readReq' = state
    /\ readResp' = readDataResourceState(state)
    /\ state' = readDataResourceState(state).NewState
    /\ cycles < MaxCycles
    /\ cycles' = cycles + 1
    /\ pc' = "read"
    /\ UNCHANGED <<config, vdiags, priorState, proposedState, planResp,
                   plannedState, applyResp, genResult, hookCalled, upgradeReq,
                   upgradeResp, testUUIDHook, nextUUID, held>>

PlanResourceChange ==
    /\ pc = "validated"
    /\ priorState' = state
    /\ proposedState' = ProposedNewState(state, config)
    /\ planResp' = planDataResourceChange(state, ProposedNewState(state, config))
    /\ held' = IF state.isNull THEN held ELSE held \cup {state.uuid}
    /\ pc' = "planned"
    /\ UNCHANGED <<state, config, vdiags, plannedState, applyResp, genResult,
                   hookCalled, readReq, readResp, upgradeReq, upgradeResp,
                   testUUIDHook, nextUUID, cycles>>

ApplyResourceChange ==
    /\ pc = "planned"
    /\ plannedState' = planResp.PlannedState
    /\ \E gen \in GenOutcomes(planResp.PlannedState, nextUUID) :
        /\ genResult' = gen
        /\ applyResp' = applyDataResourceChange(planResp.PlannedState, gen,
                                                testUUIDHook)
        /\ state' = applyDataResourceChange(planResp.PlannedState, gen,
                                            testUUIDHook).NewState
        /\ nextUUID' = IF CallsGenerator(planResp.PlannedState) /\ ~gen.err
                       THEN nextUUID + 1 ELSE nextUUID
    /\ hookCalled' = CallsHook(planResp.PlannedState, testUUIDHook)
    /\ pc' = "applied"
    /\ UNCHANGED <<config, vdiags, priorState, proposedState, planResp,
                   readReq, readResp, upgradeReq, upgradeResp, testUUIDHook,
                   held, cycles>>

Next ==
    \/ ValidateResourceConfig
    \/ ReadResource
    \/ PlanResourceChange
    \/ ApplyResourceChange

Spec == Init /\ [][Next]_vars

(***************************************************************************)
(* The planner and the applier as functions of arbitrary requests          *)
(***************************************************************************)
\* values of input and trigger in a persisted state
StateValues == ConfigValues \cup {NullVal(String)}

\* persisted states hold no unknown value
PriorStates ==
    {NullObj} \cup
    {ObjectVal(i, o, t, u) :
        i \in StateValues, t \in ConfigValues,
        o \in {NullVal(DynamicPseudoType)} \cup {StringVal(x) : x \in 1..MaxVal},
        u \in {StringVal(0), StringVal(1)}}

\* proposed and planned states may hold unknown values
RequestStates ==
    {NullObj} \cup
    {ObjectVal(i, o, t, u) :
        i \in StateValues \cup {UnknownVal(String)}, t \in ConfigValues,
        o \in {NullVal(DynamicPseudoType), UnknownVal(String)}
                \cup {StringVal(x) : x \in 1..MaxVal},
        u \in {NullVal(String), UnknownVal(String), StringVal(0), StringVal(1)}}

\* testUUIDHook: nil, or a function returning a fixed identifier
HookValues == {0, 1}

\* raw states: bytes that do not decode, and the encodings of states
RawStates ==
    {[decodes |-> FALSE, val |-> NullObj, err |-> e] :
        e \in {"syntax error", "unsupported attribute"}} \cup
    {[decodes |-> TRUE, val |-> st, err |-> ""] : st \in PriorStates}

UpgradeRequests ==
    {[RawStateJSON |-> raw, Version |-> ver] :
        raw \in RawStates, ver \in 0..MaxVersion}

InitFn ==
    /\ state = NullObj
    /\ vdiags = <<>>
    /\ planResp = NoPlanResp
    /\ applyResp = NoApplyResp
    /\ genResult = NoCall
    /\ hookCalled = FALSE
    /\ readReq = NullObj
    /\ readResp = NoReadResp
    /\ upgradeResp = NoUpgradeResp
    /\ nextUUID = 0
    /\ held = {}
    /\ cycles = 0
    /\ \/ /\ pc = "callPlan"
          /\ priorState \in PriorStates
          /\ proposedState \in RequestStates
          /\ plannedState = NullObj
          /\ testUUIDHook = 0
          /\ config = NullObj
          /\ upgradeReq = NoUpgradeReq
       \/ /\ pc = "callApply"
          /\ priorState = NullObj
          /\ proposedState = NullObj
          /\ plannedState \in RequestStates
          /\ testUUIDHook \in HookValues
          /\ config = NullObj
          /\ upgradeReq = NoUpgradeReq
       \/ /\ pc = "callValidate"
          /\ priorState = NullObj
          /\ proposedState = NullObj
          /\ plannedState = NullObj
          /\ testUUIDHook = 0
          /\ config \in RequestStates
          /\ upgradeReq = NoUpgradeReq
       \/ /\ pc = "callUpgrade"
          /\ priorState = NullObj
          /\ proposedState = NullObj
          /\ plannedState = NullObj
          /\ testUUIDHook = 0
          /\ config = NullObj
          /\ upgradeReq \in UpgradeRequests

FnValidate ==
    /\ pc = "callValidate"
    /\ vdiags' = validateDataResourceConfig(config)
    /\ pc' = "retValidate"
    /\ UNCHANGED <<state, config, priorState, proposedState, planResp,
                   plannedState, applyResp, genResult, hookCalled, readReq,
                   readResp, upgradeReq, upgradeResp, testUUIDHook, nextUUID,
                   held, cycles>>

FnUpgrade ==
    /\ pc = "callUpgrade"
    /\ upgradeResp' = upgradeDataResourceState(upgradeReq)
    /\ pc' = "retUpgrade"
    /\ UNCHANGED <<state, config, vdiags, priorState, proposedState, planResp,
                   plannedState, applyResp, genResult, hookCalled, readReq,
                   readResp, upgradeReq, testUUIDHook, nextUUID, held, cycles>>

FnPlan ==
    /\ pc = "callPlan"
    /\ planResp' = planDataResourceChange(priorState, proposedState)
    /\ pc' = "retPlan"
    /\ UNCHANGED <<state, config, vdiags, priorState, proposedState,
                   plannedState, applyResp, genResult, hookCalled, readReq,
                   readResp, upgradeReq, upgradeResp, testUUIDHook, nextUUID,
                   held, cycles>>

FnApply ==
    /\ pc = "callApply"
    /\ \E gen \in GenOutcomes(plannedState, nextUUID) :
        /\ genResult' = gen
        /\ applyResp' = applyDataResourceChange(plannedState, gen, testUUIDHook)
        /\ nextUUID' = IF CallsGenerator(plannedState) /\ ~gen.err
                       THEN nextUUID + 1 ELSE nextUUID
    /\ hookCalled' = CallsHook(plannedState, testUUIDHook)
    /\ pc' = "retApply"
    /\ UNCHANGED <<state, config, vdiags, priorState, proposedState, planResp,
                   plannedState, readReq, readResp, upgradeReq, upgradeResp,
                   testUUIDHook, held, cycles>>

\* the planned state a plan returned is applied
FnApplyPlanned ==
    /\ pc = "retPlan"
    /\ plannedState' = planResp.PlannedState
    /\ \E gen \in GenOutcomes(planResp.PlannedState, nextUUID) :
        /\ genResult' = gen
        /\ applyResp' = applyDataResourceChange(planResp.PlannedState, gen,
                                                testUUIDHook)
        /\ nextUUID' = IF CallsGenerator(planResp.PlannedState) /\ ~gen.err
                       THEN nextUUID + 1 ELSE nextUUID
    /\ hookCalled' = CallsHook(planResp.PlannedState, testUUIDHook)
    /\ pc' = "retPlanApply"
    /\ UNCHANGED <<state, config, vdiags, priorState, proposedState, planResp,
                   readReq, readResp, upgradeReq, upgradeResp, testUUIDHook,
                   held, cycles>>

NextFn == FnValidate \/ FnUpgrade \/ FnPlan \/ FnApply \/ FnApplyPlanned

SpecFn == InitFn /\ [][NextFn]_vars

(***************************************************************************)
(* Properties                                                              *)
(***************************************************************************)
\* a plan response is at hand for priorState and proposedState
PlanReturned == pc \in {"planned", "applied", "retPlan", "retPlanApply"}

\* an apply response is at hand for plannedState
ApplyReturned == pc \in {"applied", "retApply", "retPlanApply"}

BothNonNull == ~priorState.isNull /\ ~proposedState.isNull

TriggerChanged ==
    BothNonNull /\ ~RawEquals(priorState.trigger, proposedState.trigger)

InputOnlyChanged ==
    /\ BothNonNull
    /\ RawEquals(priorState.trigger, proposedState.trigger)
    /\ ~RawEquals(priorState.input, proposedState.input)

NothingChanged ==
    /\ BothNonNull
    /\ RawEquals(priorState.trigger, proposedState.trigger)
    /\ RawEquals(priorState.input, proposedState.input)

\* C1: in a plan->apply cycle with prior and proposed non-null, proposed
\* carrying the prior uuid and the triggers structurally equal (the input
\* changed or not), the planned uuid and the final uuid are the prior uuid.
C1_UUIDKeptInPlace ==
    (/\ BothNonNull
     /\ proposedState.uuid = priorState.uuid
     /\ RawEquals(priorState.trigger, proposedState.trigger))
    => /\ PlanReturned => planResp.PlannedState.uuid = priorState.uuid
       /\ pc = "applied" =>
            /\ applyResp.NewState.uuid = priorState.uuid
            /\ state.uuid = priorState.uuid

\* an in-place update that changed the input has been applied to a state
\* whose uuid the generator minted
C1_Witness ==
    /\ pc = "applied"
    /\ InputOnlyChanged
    /\ priorState.uuid = StringVal(1)
    /\ state.uuid = StringVal(1)
    /\ state.input # priorState.input

\* C2: after a plan->apply cycle with prior and proposed non-null and the
\* triggers different, the final uuid is a freshly generated identifier: it
\* is the one the generator returned without error, and it is none of the
\* uuids the instance held before.
C2_ReplacementMintsFreshUUID ==
    (pc = "applied" /\ TriggerChanged)
    => /\ ~genResult.err
       /\ state.uuid = StringVal(genResult.uuidString)
       /\ state.uuid \notin held
       /\ state.uuid # priorState.uuid

\* C3: in every persisted state whose input is non-null, the output equals
\* the input.
C3_OutputEqualsInput ==
    (~state.isNull /\ ~IsNull(state.input))
    => RawEquals(state.output, state.input)

\* an in-place update has given the instance a new non-null input
C3_Witness ==
    /\ pc = "applied"
    /\ InputOnlyChanged
    /\ ~IsNull(state.input)
    /\ ~IsNull(priorState.input)
    /\ state.output = state.input
    /\ state.output # priorState.output

\* C4: in every non-null persisted state, the output is null if and only if
\* the input is null.
C4_OutputNullIffInputNull ==
    ~state.isNull => (IsNull(state.output) <=> IsNull(state.input))

\* a replacement whose new input is null has been applied over a state
\* whose output was not null
C4_Witness ==
    /\ pc = "applied"
    /\ TriggerChanged
    /\ ~IsNull(priorState.output)
    /\ IsNull(state.input)
    /\ IsNull(state.output)

\* C5: when apply is given a planned state with unknown uuid and the
\* generator fails, the response carries an error diagnostic on uuid, the
\* final uuid is still unknown, and every other attribute known in planned
\* has the same value in final.
C5_GeneratorFailureLeavesUUIDUnknown ==
    (/\ ApplyReturned
     /\ ~plannedState.isNull
     /\ ~IsKnown(plannedState.uuid)
     /\ genResult.err)
    => /\ applyResp.Diagnostics = <<"uuid">>
       /\ ~IsKnown(applyResp.NewState.uuid)
       /\ \A a \in {"input", "trigger", "output"} :
            IsKnown(plannedState[a]) => applyResp.NewState[a] = plannedState[a]

\* C6: the plan marks trigger as requiring replacement exactly when prior and
\* proposed are non-null and their triggers are not structurally equal, and
\* marks nothing otherwise; when it does, the planned uuid is unknown.
C6_RequiresReplaceIffTriggerChanged ==
    PlanReturned
    => /\ planResp.RequiresReplace =
            IF TriggerChanged THEN <<"trigger">> ELSE <<>>
       /\ TriggerChanged => planResp.PlannedState.uuid = UnknownVal(String)

\* a plan where only the trigger differs
C6_Witness ==
    /\ pc = "retPlan"
    /\ TriggerChanged
    /\ RawEquals(priorState.input, proposedState.input)
    /\ planResp.RequiresReplace = <<"trigger">>
    /\ IsKnown(proposedState.uuid)

\* C7: on a trigger-changed plan the planned output is a (known) null when
\* the proposed input is null and is unknown when it is not, whatever the
\* prior output and whether or not the input changed too.
C7_ReplaceOutput ==
    (PlanReturned /\ TriggerChanged)
    => IF IsNull(proposedState.input)
       THEN IsNull(planResp.PlannedState.output)
       ELSE ~IsKnown(planResp.PlannedState.output)

\* a replacement plan whose input became null while the output carried over
\* from the prior state is not null
C7_Witness ==
    /\ pc = "retPlan"
    /\ TriggerChanged
    /\ IsNull(proposedState.input)
    /\ ~IsNull(priorState.input)
    /\ ~IsNull(proposedState.output)
    /\ planResp.PlannedState.output = NullVal(DynamicPseudoType)

\* C8: on a create plan (prior null, proposed non-null) the planned uuid is
\* unknown, nothing requires replacement, and the planned output is unknown
\* if the proposed input is non-null and otherwise is the output of proposed
\* as it came (null, and so not unknown, when proposed carries a null output).
C8_CreatePlan ==
    (PlanReturned /\ priorState.isNull /\ ~proposedState.isNull)
    => /\ planResp.PlannedState.uuid = UnknownVal(String)
       /\ planResp.RequiresReplace = <<>>
       /\ IF ~IsNull(proposedState.input)
          THEN ~IsKnown(planResp.PlannedState.output)
          ELSE /\ planResp.PlannedState.output = proposedState.output
               /\ IsNull(proposedState.output) =>
                    /\ IsNull(planResp.PlannedState.output)
                    /\ IsKnown(planResp.PlannedState.output)

\* a create plan with null input and null output
C8_Witness ==
    /\ pc = "retPlan"
    /\ priorState.isNull
    /\ ~proposedState.isNull
    /\ IsNull(proposedState.input)
    /\ IsNull(proposedState.output)
    /\ IsNull(planResp.PlannedState.output)
    /\ ~IsKnown(planResp.PlannedState.uuid)

\* C9: on an input-only change (triggers structurally equal, inputs not,
\* a change to or from null included) the planned output is unknown, the
\* planned uuid is the uuid carried in proposed, and nothing requires
\* replacement.
C9_InputOnlyChange ==
    (PlanReturned /\ InputOnlyChanged)
    => /\ ~IsKnown(planResp.PlannedState.output)
       /\ planResp.PlannedState.uuid = proposedState.uuid
       /\ planResp.RequiresReplace = <<>>

\* an input-only change from a non-null input to null, the output and the
\* uuid carried over from the prior state
C9_Witness ==
    /\ pc = "retPlan"
    /\ InputOnlyChanged
    /\ ~IsNull(priorState.input)
    /\ IsNull(proposedState.input)
    /\ proposedState.output = priorState.output
    /\ ~IsNull(proposedState.output)
    /\ proposedState.uuid = priorState.uuid
    /\ ~IsKnown(planResp.PlannedState.output)

\* C10: when trigger and input of non-null prior and proposed are
\* structurally equal, the planned state is the proposed state verbatim and
\* nothing requires replacement; in particular the plan of S against S is S.
C10_NoChangePlan ==
    (PlanReturned /\ NothingChanged)
    => /\ planResp.PlannedState = proposedState
       /\ planResp.RequiresReplace = <<>>
       /\ proposedState = priorState => planResp.PlannedState = priorState

\* the plan of a non-null state with a non-null input against itself
C10_Witness ==
    /\ pc = "retPlan"
    /\ ~priorState.isNull
    /\ proposedState = priorState
    /\ ~IsNull(priorState.input)
    /\ planResp.PlannedState = priorState

\* a plan followed by the apply of its planned state has returned
CycleDone == pc \in {"applied", "retPlanApply"}

ValidateReturned == pc \in {"validated", "rejected", "retValidate"}

FullyKnown(obj) ==
    \A a \in {"input", "output", "trigger", "uuid"} : IsKnown(obj[a])

\* C11: when prior and proposed are non-null and both trigger and input
\* differ, the plan is the trigger-changed plan of that proposed state:
\* trigger requires replacement, uuid is unknown, output is an explicit null
\* for a null input and unknown otherwise (the input step does not run on
\* top of it), and it is the plan the same proposed state gets when only the
\* trigger differs.
C11_TriggerTakesPrecedence ==
    (PlanReturned /\ TriggerChanged
        /\ ~RawEquals(priorState.input, proposedState.input))
    => /\ planResp.RequiresReplace = <<"trigger">>
       /\ planResp.PlannedState =
            [proposedState EXCEPT
                !.uuid = UnknownVal(String),
                !.output = IF IsNull(proposedState.input)
                           THEN NullVal(DynamicPseudoType)
                           ELSE UnknownVal(Type(proposedState.input))]
       /\ planResp =
            planDataResourceChange(
                [priorState EXCEPT !.input = proposedState.input],
                proposedState)

\* trigger and input both changed, the input to null
C11_Witness ==
    /\ pc = "retPlan"
    /\ TriggerChanged
    /\ ~IsNull(priorState.input)
    /\ IsNull(proposedState.input)
    /\ ~IsNull(proposedState.output)
    /\ IsKnown(planResp.PlannedState.output)
    /\ planResp.RequiresReplace = <<"trigger">>

\* C12: for a non-null planned state whose output is unknown and whose input
\* is known (null included), the final output is the input.
C12_ApplyResolvesOutput ==
    (/\ ApplyReturned
     /\ ~plannedState.isNull
     /\ ~IsKnown(plannedState.output)
     /\ IsKnown(plannedState.input))
    => applyResp.NewState.output = plannedState.input

\* an unknown output resolved to a null input of type string
C12_Witness ==
    /\ pc = "retApply"
    /\ ~plannedState.isNull
    /\ ~IsKnown(plannedState.output)
    /\ plannedState.input = NullVal(String)
    /\ applyResp.NewState.output = NullVal(String)

\* C13: for a non-null planned state with no unknown attribute, apply returns
\* the planned state with no diagnostics and calls neither the generator nor
\* the hook; and applying the result of an apply without diagnostics again
\* returns that result.
C13_ApplyIdentityOnKnown ==
    /\ (ApplyReturned /\ ~plannedState.isNull /\ FullyKnown(plannedState))
       => /\ applyResp.NewState = plannedState
          /\ applyResp.Diagnostics = <<>>
          /\ genResult = NoCall
          /\ ~hookCalled
    /\ (ApplyReturned /\ applyResp.Diagnostics = <<>>)
       => \A gen \in GenOutcomes(applyResp.NewState, nextUUID) :
            applyDataResourceChange(applyResp.NewState, gen, testUUIDHook)
                = [NewState |-> applyResp.NewState, Diagnostics |-> <<>>]

\* a fully known plan applied while the hook is installed
C13_Witness ==
    /\ pc = "retApply"
    /\ testUUIDHook # 0
    /\ ~plannedState.isNull
    /\ FullyKnown(plannedState)
    /\ plannedState.uuid = StringVal(0)
    /\ applyResp.NewState = plannedState

\* C14: the plan of any prior state against a null proposed state is the null
\* state, with nothing to replace and no diagnostics; the apply of a null
\* planned state is the null state, with no diagnostics and no call of the
\* generator.
C14_DestroyRoundTrip ==
    /\ (PlanReturned /\ proposedState.isNull)
       => /\ planResp.PlannedState = NullObj
          /\ planResp.RequiresReplace = <<>>
          /\ planResp.Diagnostics = <<>>
    /\ (ApplyReturned /\ plannedState.isNull)
       => /\ applyResp.NewState = NullObj
          /\ applyResp.Diagnostics = <<>>
          /\ genResult = NoCall
          /\ ~hookCalled
    /\ (CycleDone /\ proposedState.isNull) => applyResp.NewState.isNull

\* an existing instance planned for removal and the null plan applied
C14_Witness ==
    /\ pc = "retPlanApply"
    /\ ~priorState.isNull
    /\ proposedState.isNull
    /\ plannedState.isNull
    /\ applyResp.NewState.isNull

\* C15: validate reports a read-only error for uuid, and for output, exactly
\* when the configuration is non-null and that attribute is non-null in it
\* (two errors when both are set, none for a null configuration).
C15_ValidateReadOnly ==
    ValidateReturned
    => LET set(a) == ~config.isNull /\ ~IsNull(config[a])
       IN  /\ \A a \in {"uuid", "output"} :
                (\E i \in 1..Len(vdiags) : vdiags[i] = a) <=> set(a)
           /\ Len(vdiags) = Cardinality({a \in {"uuid", "output"} : set(a)})

\* a configuration that sets both computed attributes
C15_Witness ==
    /\ pc = "retValidate"
    /\ ~IsNull(config.uuid)
    /\ ~IsNull(config.output)
    /\ vdiags = <<"uuid", "output">>

\* C16: a read returns the prior state and no diagnostics, so the state of
\* the instance after a read is the state before it.
C16_ReadIsIdentity ==
    pc = "read"
    => /\ readResp.NewState = readReq
       /\ readResp.Diagnostics = <<>>
       /\ state = readReq

\* a read of an instance that exists, after a cycle
C16_Witness ==
    /\ pc = "read"
    /\ ~readReq.isNull
    /\ ~IsNull(readReq.input)
    /\ readReq.uuid = StringVal(1)
    /\ state = readReq

\* C17: when the raw state does not decode, the response has no upgraded
\* state and the decode error as its one diagnostic; when it decodes, the
\* response is the decoded value and no diagnostics; whatever the version.
C17_UpgradeState ==
    pc = "retUpgrade"
    => IF upgradeReq.RawStateJSON.decodes
       THEN /\ upgradeResp.UpgradedState = <<upgradeReq.RawStateJSON.val>>
            /\ upgradeResp.Diagnostics = <<>>
       ELSE /\ upgradeResp.UpgradedState = <<>>
            /\ upgradeResp.Diagnostics = <<upgradeReq.RawStateJSON.err>>

\* a raw state of a later version that does not decode
C17_Witness ==
    /\ pc = "retUpgrade"
    /\ ~upgradeReq.RawStateJSON.decodes
    /\ upgradeReq.Version > 0
    /\ upgradeResp.Diagnostics = <<"syntax error">>

\* C18: when the planned state of a plan whose proposed input and trigger
\* are known is applied, the final state has no unknown attribute.
C18_FinalFullyKnown ==
    (/\ CycleDone
     /\ ~proposedState.isNull
     /\ IsKnown(proposedState.input)
     /\ IsKnown(proposedState.trigger))
    => /\ ~applyResp.NewState.isNull
       /\ FullyKnown(applyResp.NewState)

\* a replacement applied while the generator fails
C18_Witness ==
    /\ pc = "retPlanApply"
    /\ TriggerChanged
    /\ ~IsNull(proposedState.input)
    /\ genResult.err
    /\ FullyKnown(applyResp.NewState)

\* C19: a state F the instance reached by a cycle plans against itself to F,
\* with no unknown attribute and nothing to replace, and the apply of that
\* plan is F without a call of the generator; and a cycle whose proposed
\* state is the prior state leaves the state and its uuid as they were.
C19_Convergence ==
    /\ (pc = "applied" /\ ~state.isNull)
       => LET p == planDataResourceChange(state, state)
          IN  /\ p.PlannedState = state
              /\ FullyKnown(p.PlannedState)
              /\ p.RequiresReplace = <<>>
              /\ ~CallsGenerator(p.PlannedState)
              /\ applyDataResourceChange(p.PlannedState, NoCall, testUUIDHook)
                    = [NewState |-> state, Diagnostics |-> <<>>]
    /\ (/\ pc \in {"planned", "applied"}
        /\ ~priorState.isNull
        /\ proposedState = priorState)
       => /\ planResp.PlannedState = priorState
          /\ FullyKnown(planResp.PlannedState)
          /\ planResp.RequiresReplace = <<>>
          /\ pc = "applied" =>
                /\ state = priorState
                /\ genResult = NoCall
                /\ applyResp.Diagnostics = <<>>

\* the configuration that produced the state was planned and applied again
C19_Witness ==
    /\ pc = "applied"
    /\ ~priorState.isNull
    /\ proposedState = priorState
    /\ ~IsNull(state.input)
    /\ state.uuid = StringVal(1)
    /\ state = priorState

\* C20: the plan of a non-null proposed state keeps its input and trigger,
\* and the apply of a non-null planned state keeps its input and trigger.
C20_InputTriggerFrame ==
    /\ (PlanReturned /\ ~proposedState.isNull)
       => /\ planResp.PlannedState.input = proposedState.input
          /\ planResp.PlannedState.trigger = proposedState.trigger
    /\ (ApplyReturned /\ ~plannedState.isNull)
       => /\ applyResp.NewState.input = plannedState.input
          /\ applyResp.NewState.trigger = plannedState.trigger

\* an input change planned and applied: the output was unknown in the plan
C20_Witness ==
    /\ pc = "retPlanApply"
    /\ InputOnlyChanged
    /\ ~IsNull(proposedState.input)
    /\ ~IsKnown(plannedState.output)
    /\ applyResp.NewState.input = proposedState.input
    /\ applyResp.NewState.output = proposedState.input

====
